---------------------------- MODULE Spec2Model ----------------------------
(***************************************************************************)
(* Model of src/pages/account/statistics.js: getServerSideProps of the     *)
(* account statistics page.  The handler awaits three calls, the session    *)
(* lookup, the profile fetch and the statistics fetch; each action below    *)
(* is the resumption of the handler when one awaited call settles, run to   *)
(* the next await or to the handler's end.                                  *)
(*                                                                          *)
(* Time values are hours since 1970-01-01T00:00Z (the ECMAScript epoch at   *)
(* hour resolution); the calendar is the ECMAScript one for the non-leap    *)
(* years 1970 and 1971.  A "YYYY-MM-DD" key is the tuple <<year, month,     *)
(* date>>.                                                                  *)
(***************************************************************************)
EXTENDS Integers, Sequences, FiniteSets, TLC

VARIABLES pc, zone, session, status, profile, stats, statsThrew,
          currentDate, calls, logged, outcome, data, progress

vars == <<pc, zone, session, status, profile, stats, statsThrew,
          currentDate, calls, logged, outcome, data, progress>>

-----------------------------------------------------------------------------
(* Bounds of the model *)

MaxSamples == 2
MaxViews == 2
MaxLinks == 2
MaxClicks == 2
MaxProfileLinks == 2
MaxSectionLen == 1

-----------------------------------------------------------------------------
(* ECMAScript Date at hour resolution *)

HoursPerDay == 24

\* the time value of an Invalid Date
NaN == -1

MonthLengths == <<31, 28, 31, 30, 31, 30, 31, 31, 30, 31, 30, 31>>

\* day within the year on which month m starts
MonthStart == <<0, 31, 59, 90, 120, 151, 181, 212, 243, 273, 304, 334>>

DaysInYear == 365

Day(t) == t \div HoursPerDay

HourFromTime(t) == t % HoursPerDay

YearFromTime(t) == 1970 + (Day(t) \div DaysInYear)

DayWithinYear(t) == Day(t) % DaysInYear

\* month and day of the month of each day of a year
MonthAndDate(d) ==
    LET m == CHOOSE m \in 1..12 :
                 MonthStart[m] <= d /\ d < MonthStart[m] + MonthLengths[m]
    IN  [month |-> m, date |-> d - MonthStart[m] + 1]

DayTable == [i \in 1..DaysInYear |-> MonthAndDate(i - 1)] \o <<>>

MonthFromTime(t) == DayTable[DayWithinYear(t) + 1].month

DateFromTime(t) == DayTable[DayWithinYear(t) + 1].date

\* MakeDay(year, month, date): the date may be 0 or negative and then counts
\* back into the months before
MakeDay(year, month, dt) == (year - 1970) * DaysInYear + MonthStart[month] + dt - 1

MakeDate(day, hour) == day * HoursPerDay + hour

\* A time zone: the standard offset, the daylight-saving offset, and the UTC
\* instants between which daylight-saving time is in force (hours).
LocalTZA(z, t) == IF z.start <= t /\ t < z.end THEN z.dst ELSE z.std

LocalTime(z, t) == t + LocalTZA(z, t)

Min(S) == CHOOSE x \in S : \A y \in S : x <= y

\* UTC(t): a local time that repeats at the end of daylight saving or is
\* skipped at its start is read with the offset in force before the transition
UTC(z, l) ==
    LET C == {u \in {l - z.std, l - z.dst} : LocalTime(z, u) = l}
    IN  IF C = {} THEN l - z.std ELSE Min(C)

\* Date.prototype.getDate: day of the month in local time
GetDate(z, t) == DateFromTime(LocalTime(z, t))

\* Date.prototype.setDate(dt): local fields, the day of the month replaced
SetDate(z, t, dt) ==
    LET l == LocalTime(z, t)
    IN  UTC(z, MakeDate(MakeDay(YearFromTime(l), MonthFromTime(l), dt),
                        HourFromTime(l)))

\* Date.prototype.toISOString: the UTC fields "YYYY-MM-DDTHH..Z"
ToISOString(t) ==
    [year |-> YearFromTime(t), month |-> MonthFromTime(t),
     date |-> DateFromTime(t), hour |-> HourFromTime(t)]

\* .split('T')[0]
DateKey(iso) == <<iso.year, iso.month, iso.date>>

\* Date.parse of an ISO string in UTC (a date-only string has hour 0)
DateParse(iso) == MakeDate(MakeDay(iso.year, iso.month, iso.date), iso.hour)

NoIso == [year |-> 0, month |-> 0, date |-> 0, hour |-> 0]

DateString(t) == [tag |-> "string", iso |-> ToISOString(t)]
DateNull == [tag |-> "null", iso |-> NoIso]
DateUndefined == [tag |-> "undefined", iso |-> NoIso]
DateMalformed == [tag |-> "malformed", iso |-> NoIso]

\* new Date(v): the time value
NewDate(v) ==
    CASE v.tag = "string" -> DateParse(v.iso)
      [] v.tag = "null" -> 0
      [] OTHER -> NaN

-----------------------------------------------------------------------------
(* Values of the page's data *)

\* an optional array: profile[property] and profile.links
Undefined == [defined |-> FALSE, items |-> <<>>]
Array(s) == [defined |-> TRUE, items |-> s]

profileSections == <<"links", "milestones", "tags", "socials", "testimonials">>

Sections == {profileSections[i] : i \in 1..Len(profileSections)}

\* let data = {}
EmptyObject == [defined |-> FALSE, individual |-> <<>>, daily |-> <<>>]

StatsData(individual, daily) ==
    [defined |-> TRUE, individual |-> individual, daily |-> daily]

NoProgress == [percentage |-> <<0>>, missing |-> <<>>]

NoData == [individual |-> <<>>, clicks |-> 0, daily |-> <<>>]

-----------------------------------------------------------------------------
(* The synchronous part of getServerSideProps, lines 69-119 *)

RECURSIVE FilterFrom(_, _, _)
\* the elements of s from index i on whose test passed, in order
FilterFrom(s, keep, i) ==
    IF i > Len(s) THEN <<>>
    ELSE (IF keep[i] THEN <<s[i]>> ELSE <<>>) \o FilterFrom(s, keep, i + 1)

\* Array.prototype.filter, keep[i] being the callback's answer for s[i]
Filter(s, keep) == FilterFrom(s, keep, 1)

\* !profile[property]?.length
NoLength(prof, property) ==
    \/ ~prof[property].defined
    \/ Len(prof[property].items) = 0

Missing(prof) ==
    Filter(profileSections,
           [i \in 1..Len(profileSections) |-> NoLength(prof, profileSections[i])])

RECURSIVE Digits(_)
\* the decimal numeral of a natural number
Digits(n) == IF n < 10 THEN <<n>> ELSE Append(Digits(n \div 10), n % 10)

\* Number.prototype.toFixed(0) of num/den >= 0: rounded to the nearest integer,
\* as a numeral
ToFixed0(num, den) == Digits((2 * num + den) \div (2 * den))

\* Percentage with the missing sections counted in place of the present ones
PercentageOfMissing(missing) ==
    ToFixed0(Len(missing) * 100, Len(profileSections))

Percentage(missing) ==
    ToFixed0((Len(profileSections) - Len(missing)) * 100, Len(profileSections))

\* profile.links.some((pLink) => pLink.url === link.url)
SomeLink(prof, link) ==
    \E i \in 1..Len(prof["links"].items) : prof["links"].items[i].url = link.url

\* FilterIndividual without the filter
FilterIndividualAll(prof, individual) == individual

FilterIndividual(prof, individual) ==
    Filter(individual,
           [i \in 1..Len(individual) |-> SomeLink(prof, individual[i])])

RECURSIVE TotalClicks(_)
\* reduce((acc, link) => acc + link.clicks, 0)
TotalClicks(individual) ==
    IF individual = <<>> THEN 0
    ELSE TotalClicks(SubSeq(individual, 1, Len(individual) - 1))
         + individual[Len(individual)].clicks

\* the key of a sample: new Date(stat.date).toISOString().split('T')[0]
StatKey(stat) == DateKey(ToISOString(NewDate(stat.date)))

RECURSIVE DailyStatsMap(_)
\* new Map(entries): a later entry with the same key replaces the earlier
\* one.  The map holds each key's views, the one field read from it.
DailyStatsMap(daily) ==
    IF daily = <<>> THEN << >>
    ELSE LET last == daily[Len(daily)]
         IN  (StatKey(last) :> last.views)
             @@ DailyStatsMap(SubSeq(daily, 1, Len(daily) - 1))

\* Array.prototype.reverse
Reverse(s) == [i \in 1..Len(s) |-> s[Len(s) + 1 - i]]

WindowDays == 30

\* the callback of Array.from at lines 93-97: the key of the day that lies
\* index days back
DayBack(z, now, index) ==
    DateKey(ToISOString(SetDate(z, now, GetDate(z, now) - index)))

\* Array.from({length: 30}, (_, index) => ...).reverse()
Last30Days(z, now) ==
    Reverse([i \in 1..WindowDays |-> DayBack(z, now, i - 1)])

\* first forEach: a placeholder with views 0 for each day the map lacks
EnsureEntries(map, days) ==
    [k \in DOMAIN map \cup {days[i] : i \in 1..Len(days)} |->
        IF k \in DOMAIN map THEN map[k] ELSE 0]

\* last30Days.map(date => ({views: dailyStatsMap.get(date).views, date}))
Last30DaysStats(map, days) ==
    [i \in 1..Len(days) |-> [views |-> map[days[i]], date |-> days[i]]]

\* FillMissing with the test of line 114 left out
FillMissingAlways(series, map, days) ==
    series \o [i \in 1..Len(days) |-> [views |-> 0, date |-> days[i]]]

\* second forEach: push a zero entry for each day the map lacks
FillMissing(series, map, days) ==
    LET lacking == Filter(days, [i \in 1..Len(days) |-> days[i] \notin DOMAIN map])
    IN  series \o [i \in 1..Len(lacking) |-> [views |-> 0, date |-> lacking[i]]]

\* the daily series stored at line 119
Normalize(z, now, daily) ==
    LET days == Last30Days(z, now)
        map == EnsureEntries(DailyStatsMap(daily), days)
    IN  FillMissing(Last30DaysStats(map, days), map, days)

InvalidDate(stat) == NewDate(stat.date) = NaN

\* What lines 69-129 end with: the props, or the exception that leaves the
\* handler.
Reshape(z, now, prof, st) ==
    IF ~st.defined
    THEN [outcome |-> "TypeError", data |-> NoData]
    ELSE IF st.individual # <<>> /\ ~prof["links"].defined
    THEN [outcome |-> "TypeError", data |-> NoData]
    ELSE IF \E i \in 1..Len(st.daily) : InvalidDate(st.daily[i])
    THEN [outcome |-> "RangeError", data |-> NoData]
    ELSE LET individual == FilterIndividual(prof, st.individual)
         IN  [outcome |-> "props",
              data |-> [individual |-> individual,
                        clicks |-> TotalClicks(individual),
                        daily |-> Normalize(z, now, st.daily)]]

-----------------------------------------------------------------------------
(* The inputs the environment may supply *)

SeqsUpTo(S, n) == UNION {[1..k -> S] : k \in 0..n}

OptArrays(S, n) == {Undefined} \cup {Array(s) : s \in SeqsUpTo(S, n)}

UTCZone == [std |-> 0, dst |-> 0, start |-> 0, end |-> 0]

\* no daylight saving, ten hours ahead of UTC
Brisbane == [std |-> 10, dst |-> 10, start |-> 0, end |-> 0]

\* US Eastern time in 1970: daylight saving from 26 April 02:00 EST to
\* 25 October 02:00 EDT
NewYork ==
    [std |-> -5, dst |-> -4,
     start |-> MakeDate(MakeDay(1970, 4, 26), 7),
     end |-> MakeDate(MakeDay(1970, 10, 25), 6)]

Zones == {UTCZone, Brisbane, NewYork}

\* 10 May 23:00Z, 10 November 12:00Z and 11 November 00:00Z
Clocks ==
    {MakeDate(MakeDay(1970, 5, 10), 23),
     MakeDate(MakeDay(1970, 11, 10), 12),
     MakeDate(MakeDay(1970, 11, 11), 0)}

Urls == {"https://a.example", "https://b.example", "https://c.example"}

ProfileUrls == {"https://a.example", "https://b.example"}

NoProfile == [p \in Sections |-> Undefined]

FullProfile ==
    [p \in Sections |->
        IF p = "links" THEN Array(<<[url |-> "https://a.example"]>>)
        ELSE Array(<<"item">>)]

\* profiles that differ in their links
ProfilesLinks ==
    {[p \in Sections |-> IF p = "links" THEN l ELSE Array(<<"item">>)] :
        l \in OptArrays({[url |-> u] : u \in ProfileUrls}, MaxProfileLinks)}

\* profiles that differ in which sections are present and how long they are
ProfilesSections ==
    {[p \in Sections |-> IF p = "links" THEN l ELSE f[p]] :
        l \in OptArrays({[url |-> "https://a.example"]}, MaxSectionLen),
        f \in [Sections \ {"links"} -> OptArrays({"item"}, MaxSectionLen)]}

IndividualLinks == {[url |-> u, clicks |-> c] : u \in Urls, c \in 0..MaxClicks}

\* statistics that differ in their links
StatsLinks(now) ==
    {StatsData(ind, <<[date |-> DateString(now), views |-> 1]>>) :
        ind \in SeqsUpTo(IndividualLinks, MaxLinks)}

StatsOne(now) ==
    {StatsData(<<[url |-> "https://a.example", clicks |-> 1]>>,
               <<[date |-> DateString(now), views |-> 1]>>)}

\* sample dates around the window that ends on the UTC day of now, and the
\* dates that are no date
SampleDates(now) ==
    {DateString(MakeDate(Day(now) - d, 0)) : d \in {30, 29, 1, 0, -1}}
    \cup {DateString(MakeDate(Day(now) - 1, 13))}
    \cup {DateNull, DateUndefined, DateMalformed}

Samples(now) ==
    {[date |-> d, views |-> v] : d \in SampleDates(now), v \in 1..MaxViews}

\* statistics that differ in their daily samples
StatsSeries(now) ==
    {StatsData(<<[url |-> "https://a.example", clicks |-> 1]>>, daily) :
        daily \in SeqsUpTo(Samples(now), MaxSamples)}

\* the inputs of the last step: for each reading of the clock the statistics
\* that may have been fetched
ProgressInputs == [now \in Clocks |-> StatsOne(now)]

SeriesInputs == [now \in Clocks |-> StatsSeries(now)]

LinksInputs == [now \in {MakeDate(MakeDay(1970, 11, 10), 12)} |-> StatsLinks(now)]

-----------------------------------------------------------------------------
(* getServerSideProps *)

InitIn(Z) ==
    /\ pc = "start"
    /\ zone \in Z
    /\ session = FALSE
    /\ status = 0
    /\ profile = NoProfile
    /\ stats = EmptyObject
    /\ statsThrew = FALSE
    /\ currentDate = 0
    /\ calls = <<>>
    /\ logged = <<>>
    /\ outcome = "pending"
    /\ data = NoData
    /\ progress = NoProgress

\* the handler is entered and runs to its first await
Enter ==
    /\ pc = "start"
    /\ calls' = Append(calls, "getServerSession")
    /\ pc' = "getServerSession"
    /\ UNCHANGED <<zone, session, status, profile, stats, statsThrew,
                   currentDate, logged, outcome, data, progress>>

\* GetServerSession with the check of line 26 left out
GetServerSessionUnchecked ==
    /\ pc = "getServerSession"
    /\ \E s \in BOOLEAN :
        /\ session' = s
        /\ calls' = Append(calls, "getUserApi")
        /\ pc' = "getUserApi"
        /\ UNCHANGED outcome
    /\ UNCHANGED <<zone, status, profile, stats, statsThrew, currentDate,
                   logged, data, progress>>

\* the session lookup settles: lines 24-35
GetServerSession ==
    /\ pc = "getServerSession"
    /\ \E s \in BOOLEAN :
        /\ session' = s
        /\ IF ~s
           THEN /\ outcome' = "redirect:/auth/signin"
                /\ pc' = "done"
                /\ UNCHANGED calls
           ELSE /\ calls' = Append(calls, "getUserApi")
                /\ pc' = "getUserApi"
                /\ UNCHANGED outcome
    /\ UNCHANGED <<zone, status, profile, stats, statsThrew, currentDate,
                   logged, data, progress>>

\* the profile fetch settles: lines 35-64
GetUserApi(Profiles) ==
    /\ pc = "getUserApi"
    /\ \E st \in {200, 404} :
       \E p \in (IF st = 200 THEN Profiles ELSE {NoProfile}) :
        /\ status' = st
        /\ profile' = p
        /\ IF st # 200
           THEN /\ logged' = Append(logged, "profile loading failed")
                /\ outcome' = "redirect:/account/no-profile"
                /\ pc' = "done"
                /\ UNCHANGED calls
           ELSE /\ calls' = Append(calls, "getStats")
                /\ pc' = "getStats"
                /\ UNCHANGED <<logged, outcome>>
    /\ UNCHANGED <<zone, session, stats, statsThrew, currentDate, data,
                   progress>>

\* lines 69-129 run on the statistics st with the clock reading now
Finish(now, st) ==
    \E r \in {Reshape(zone, now, profile, st)} :
    \E missing \in {Missing(profile)} :
        /\ progress' = [percentage |-> Percentage(missing), missing |-> missing]
        /\ currentDate' = IF r.outcome = "props" THEN now ELSE currentDate
        /\ outcome' = r.outcome
        /\ data' = r.data
        /\ pc' = "done"

\* the statistics fetch settles, with statistics or with an exception, and
\* the handler runs to its end: lines 63-129.  Inputs gives, for each reading
\* of the clock at line 92, the statistics that may have been fetched.
GetStats(Inputs) ==
    /\ pc = "getStats"
    /\ \/ \E now \in DOMAIN Inputs : \E st \in Inputs[now] :
            /\ stats' = st
            /\ statsThrew' = FALSE
            /\ UNCHANGED logged
            /\ Finish(now, st)
       \/ /\ stats' = EmptyObject
          /\ statsThrew' = TRUE
          /\ logged' = Append(logged, "ERROR get user's account statistics")
          /\ Finish(currentDate, EmptyObject)
    /\ UNCHANGED <<zone, session, status, profile, calls>>

\* every profile, few statistics: the profile-completion progress
NextProgress ==
    \/ Enter
    \/ GetServerSession
    \/ GetUserApi(ProfilesSections)
    \/ GetStats(ProgressInputs)

SpecProgress == InitIn({UTCZone}) /\ [][NextProgress]_vars

\* every daily series, clock and zone: the 30-day series
NextSeries ==
    \/ Enter
    \/ GetServerSession
    \/ GetUserApi({FullProfile})
    \/ GetStats(SeriesInputs)

SpecSeries == InitIn(Zones) /\ [][NextSeries]_vars

\* every combination of profile links and statistics links: the control flow
\* and the link table
Init == InitIn({UTCZone, NewYork})

Next ==
    \/ Enter
    \/ GetServerSession
    \/ GetUserApi(ProfilesLinks)
    \/ GetStats(LinksInputs)

Spec == Init /\ [][Next]_vars

-----------------------------------------------------------------------------
(* Vocabulary of the properties *)

Returned == outcome = "props"

\* the day number of a "YYYY-MM-DD" key
KeyDay(k) == MakeDay(k[1], k[2], k[3])

\* the UTC calendar day of the clock reading
Today == Day(currentDate)

\* the trailing 30 calendar days ending today
Window == (Today - (WindowDays - 1))..Today

SampleDay(stat) == KeyDay(StatKey(stat))

InWindow(stat) == SampleDay(stat) \in Window

\* the positions of the output entries for day d
EntriesFor(d) == {j \in 1..Len(data.daily) : KeyDay(data.daily[j].date) = d}

\* the views of the last input sample of day d
LastViews(daily, d) ==
    LET I == {i \in 1..Len(daily) : SampleDay(daily[i]) = d}
    IN  daily[CHOOSE i \in I : \A j \in I : j <= i].views

\* the output dates are the days today-29 .. today in order
Contiguous ==
    \A i \in 1..Len(data.daily) :
        KeyDay(data.daily[i].date) = Today - (WindowDays - i)

HasDate(stat) == stat.date.tag = "string"

RECURSIVE SumClicks(_, _)
SumClicks(links, n) ==
    IF n = 0 THEN 0 ELSE links[n].clicks + SumClicks(links, n - 1)

ProfileLinkUrls ==
    {profile["links"].items[i].url : i \in 1..Len(profile["links"].items)}

RECURSIVE NumeralValue(_)
NumeralValue(ds) ==
    IF ds = <<>> THEN 0
    ELSE 10 * NumeralValue(SubSeq(ds, 1, Len(ds) - 1)) + ds[Len(ds)]

AllCalls == <<"getServerSession", "getUserApi", "getStats">>

-----------------------------------------------------------------------------
(* The 30-day series, under SpecSeries *)

\* C1: whatever the daily samples, the clock and the zone, the series stored
\* in data.profile.daily has exactly 30 entries; the second fill loop adds
\* none.
C1_SeriesHasThirtyEntries == Returned => Len(data.daily) = WindowDays

\* C1 witness: props returned for an input with a sample the series shows
\* and a sample it does not show.
C1_Witness ==
    /\ Returned
    /\ \E i \in 1..Len(stats.daily) : EntriesFor(SampleDay(stats.daily[i])) # {}
    /\ \E i \in 1..Len(stats.daily) : EntriesFor(SampleDay(stats.daily[i])) = {}

\* C2: for every instant and every server time zone the 30 date keys are the
\* calendar days today-29 .. today, strictly ascending, no gap, no duplicate.
C2_DaysContiguous == Returned => Contiguous

\* C3: every input sample whose day lies in the window has an output entry
\* for its day, and that entry carries the views of the last input sample of
\* that day.
C3_WindowSampleShown ==
    Returned =>
        \A i \in 1..Len(stats.daily) :
            InWindow(stats.daily[i]) =>
                LET d == SampleDay(stats.daily[i])
                IN  /\ EntriesFor(d) # {}
                    /\ \A j \in EntriesFor(d) :
                           data.daily[j].views = LastViews(stats.daily, d)

\* C4: every day of the window without an input sample has an output entry
\* with views 0; with no input at all every output entry has views 0.
C4_AbsentDayZero ==
    Returned =>
        /\ \A d \in Window :
               (\A i \in 1..Len(stats.daily) : SampleDay(stats.daily[i]) # d) =>
                   /\ EntriesFor(d) # {}
                   /\ \A j \in EntriesFor(d) : data.daily[j].views = 0
        /\ stats.daily = <<>> =>
               \A j \in 1..Len(data.daily) : data.daily[j].views = 0

\* C5: a sample with a malformed or missing date makes the handler end with
\* an error, never with props.
C5_BadDateRejected ==
    (pc = "done" /\ \E i \in 1..Len(stats.daily) : ~HasDate(stats.daily[i]))
        => ~Returned

\* C6: samples whose day lies outside the window have no output entry, and
\* the output is the output for the input without them.
C6_OutsideWindowIgnored ==
    Returned =>
        /\ \A i \in 1..Len(stats.daily) :
               ~InWindow(stats.daily[i]) =>
                   EntriesFor(SampleDay(stats.daily[i])) = {}
        /\ data.daily =
               Normalize(zone, currentDate, SelectSeq(stats.daily, InWindow))

\* Where the days are contiguous the series is right: C3, C4 and C6 fail
\* only where C2 fails.
SeriesRightWhereContiguous ==
    (Returned /\ Contiguous) =>
        /\ \A d \in Window :
               /\ Cardinality(EntriesFor(d)) = 1
               /\ \A j \in EntriesFor(d) :
                      data.daily[j].views =
                          IF \E i \in 1..Len(stats.daily) :
                                 SampleDay(stats.daily[i]) = d
                          THEN LastViews(stats.daily, d)
                          ELSE 0
        /\ \A i \in 1..Len(stats.daily) :
               ~InWindow(stats.daily[i]) =>
                   EntriesFor(SampleDay(stats.daily[i])) = {}
        /\ data.daily =
               Normalize(zone, currentDate, SelectSeq(stats.daily, InWindow))

\* A zone without daylight saving keeps the days contiguous.
ContiguousWithoutDaylightSaving ==
    (Returned /\ zone.std = zone.dst) => Contiguous

\* An undefined date and a string that is no date end the handler with a
\* RangeError: of the dates that are no date only null gets through.
UnparsableDateThrows ==
    (pc = "done" /\ stats.defined
     /\ \E i \in 1..Len(stats.daily) :
            stats.daily[i].date.tag \in {"undefined", "malformed"})
        => outcome = "RangeError"

-----------------------------------------------------------------------------
(* The link table, under Spec *)

\* C7: with props returned, data.links.individual is the statistics links
\* whose url is the url of some profile link, in their order, and
\* data.links.clicks is the sum of their clicks.
C7_LinksFilteredAndSummed ==
    Returned =>
        /\ data.individual =
               SelectSeq(stats.individual, LAMBDA l : l.url \in ProfileLinkUrls)
        /\ data.clicks = SumClicks(data.individual, Len(data.individual))

\* C7 witness: props returned with a link kept, a link dropped and clicks
\* counted.
C7_Witness ==
    /\ Returned
    /\ Len(data.individual) = 1
    /\ Len(stats.individual) = 2
    /\ data.clicks > 0

\* C9: when getStats throws, the error is logged and the handler still ends
\* with props or a redirect.
C9_StatsErrorSurvived ==
    (pc = "done" /\ statsThrew) =>
        /\ logged = <<"ERROR get user's account statistics">>
        /\ outcome \in {"props", "redirect:/auth/signin",
                        "redirect:/account/no-profile"}

\* C10: the calls are made in the order session, profile, statistics; with no
\* session the handler redirects to /auth/signin having called neither
\* getUserApi nor getStats; with a profile status other than 200 it redirects
\* to /account/no-profile without calling getStats; props need a session and
\* a status of 200.
C10_StepsOrdered ==
    /\ calls = SubSeq(AllCalls, 1, Len(calls))
    /\ (pc = "done" /\ ~session) =>
           outcome = "redirect:/auth/signin" /\ calls = <<"getServerSession">>
    /\ (pc = "done" /\ session /\ status # 200) =>
           /\ outcome = "redirect:/account/no-profile"
           /\ calls = <<"getServerSession", "getUserApi">>
    /\ Returned => session /\ status = 200 /\ calls = AllCalls

\* C10 witness: a session, a profile status other than 200, the redirect.
C10_Witness ==
    /\ pc = "done"
    /\ session
    /\ status = 404
    /\ outcome = "redirect:/account/no-profile"

-----------------------------------------------------------------------------
(* The profile completion, under SpecProgress *)

\* C8: progress.missing is the sections, in their order, whose profile field
\* is absent or empty, and progress.percentage is 100 * (5 - missing) / 5:
\* one of 0, 20, 40, 60, 80, 100, and 100 exactly when nothing is missing.
C8_ProgressOfSections ==
    Returned =>
        /\ progress.missing =
               SelectSeq(profileSections,
                         LAMBDA p : ~profile[p].defined \/ profile[p].items = <<>>)
        /\ NumeralValue(progress.percentage)
               = (100 * (5 - Len(progress.missing))) \div 5
        /\ NumeralValue(progress.percentage) \in {0, 20, 40, 60, 80, 100}
        /\ NumeralValue(progress.percentage) = 100 <=> progress.missing = <<>>
        /\ progress.percentage = Digits(NumeralValue(progress.percentage))

\* C8 witness: props returned with two sections missing, an absent one and an
\* empty one, and 60 percent.
C8_Witness ==
    /\ Returned
    /\ progress.missing = <<"tags", "socials">>
    /\ ~profile["tags"].defined
    /\ profile["socials"] = Array(<<>>)
    /\ progress.percentage = <<6, 0>>

=============================================================================
